---- MODULE Spec2Model ----
(***************************************************************************)
(* tower-abci, src/server.rs: the ServerBuilder, the accept loop of        *)
(* Server::listen and the per-connection loop of Connection::run.          *)
(*                                                                         *)
(* Three specifications share the variables:                               *)
(*   SpecBuilder  setter calls on a default ServerBuilder, then finish;    *)
(*   SpecSession  one accepted connection running Connection::run;         *)
(*   Spec         Server::listen: bind, accept, one task per connection.   *)
(***************************************************************************)
EXTENDS Integers, Sequences, FiniteSets, TLC

\* ------------------------------------------------------------------ bounds
\* requests read, over all connections, under Spec
MaxTotalReads == 2
\* requests the connection reads under SpecSession
MaxReads == 3
\* accept failures the listener logs
MaxAcceptErrs == 1
\* setter calls made on one builder
MaxSetCalls == 5

\* ------------------------------------------------------------------ values
None == << >>
Some(v) == << v >>

\* MethodKind, as matched in Connection::run
Categories == {"Consensus", "Mempool", "Snapshot", "Info"}
MethodKinds == Categories \cup {"Flush"}

\* the connections the listener accepts: two, to run side by side
Conns == {1, 2}
\* the handler values passed to the builder's setters
HandlerValues == {"h1", "h2"}
Slots == {"consensus", "mempool", "info", "snapshot"}

VARIABLES
    builder,     \* ServerBuilder: each slot None or Some(handler)
    setLog,      \* the setter calls made so far, <<slot, value>> each
    built,       \* TRUE once finish has consumed the builder
    server,      \* what finish returned: None or Some(Server)
    listener,    \* Server::listen: "unbound", "accepting", "bind_failed"
    acceptErrs,  \* accept failures logged by the loop
    conn,        \* per connection: None or Some(Connection), the cloned handlers
    pc,          \* per connection: where Connection::run stands
    cur,         \* per connection: the request being dispatched, or None
    readyFut,    \* per connection: the awaited ready() future
    responses,   \* per connection: the FuturesOrdered queue
    out,         \* per connection: the message handed to response_sink.send
    wire,        \* per connection: the messages the sink has written
    reads,       \* per connection: the kinds of the requests read so far
    err          \* per connection: why run returned Err, or "none"

builderVars == << builder, setLog, built >>
listenVars  == << listener, acceptErrs >>
connVars    == << conn, pc, cur, readyFut, responses, out, wire, reads, err >>
vars == << builder, setLog, built, server, listener, acceptErrs,
           conn, pc, cur, readyFut, responses, out, wire, reads, err >>

\* ------------------------------------------------------------ ServerBuilder
\* impl Default for ServerBuilder
BuilderDefault ==
    [consensus |-> None, mempool |-> None, info |-> None, snapshot |-> None]

\* a setter that keeps the value its slot already holds
SetSlotKeepFirst(b, slot, v) == IF b[slot] = None THEN [b EXCEPT ![slot] = Some(v)] ELSE b

\* a setter stores Some(value) in its slot and returns the builder
SetSlot(b, slot, v) == [b EXCEPT ![slot] = Some(v)]

\* ServerBuilder::finish: each `?` returns None on an empty slot
finish(b) ==
    IF b.consensus = None THEN None
    ELSE IF b.mempool = None THEN None
    ELSE IF b.info = None THEN None
    ELSE IF b.snapshot = None THEN None
    ELSE Some([consensus |-> b.consensus[1], mempool |-> b.mempool[1],
               info |-> b.info[1], snapshot |-> b.snapshot[1]])

Setter(slot, v) ==
    /\ ~built
    /\ Len(setLog) < MaxSetCalls
    /\ builder' = SetSlot(builder, slot, v)
    /\ setLog' = Append(setLog, << slot, v >>)
    /\ UNCHANGED << built, server, listenVars, connVars >>

SetConsensus == \E v \in HandlerValues : Setter("consensus", v)
SetMempool   == \E v \in HandlerValues : Setter("mempool", v)
SetInfo      == \E v \in HandlerValues : Setter("info", v)
SetSnapshot  == \E v \in HandlerValues : Setter("snapshot", v)

Finish ==
    /\ ~built
    /\ built' = TRUE
    /\ server' = finish(builder)
    /\ UNCHANGED << builder, setLog, listenVars, connVars >>

\* --------------------------------------------------------- Connection::run
\* the handler each arm of `match request.kind()` awaits and calls
Route(kind) ==
    CASE kind = "Consensus" -> "consensus"
      [] kind = "Mempool"   -> "mempool"
      [] kind = "Snapshot"  -> "snapshot"
      [] kind = "Info"      -> "info"

\* the future handler.call(request) returns for the request at position req
Pending(req, kind, handler) ==
    [req |-> req, kind |-> kind, handler |-> handler, st |-> "pending"]
\* Response::from(category response).into()
RspMsg(f) == [kind |-> f.kind, req |-> f.req]
\* Response::Flush.into()
FlushMsg == [kind |-> "Flush", req |-> 0]

\* a queue that puts the newest call first
push_front(q, f) == << f >> \o q

\* FuturesOrdered::push_back
push_back(q, f) == Append(q, f)

\* one queue per category: the oldest call of each category, once resolved
PollNextPerCategory(q) ==
    {i \in 1..Len(q) :
        /\ q[i].st # "pending"
        /\ \A j \in 1..(i - 1) : q[j].kind # q[i].kind}

\* a FuturesUnordered: any call that has resolved
PollNextUnordered(q) == {i \in 1..Len(q) : q[i].st # "pending"}

\* FuturesOrdered::next: the indices it may yield now (the head, once resolved)
PollNext(q) == IF q # << >> /\ q[1].st # "pending" THEN {1} ELSE {}

RemoveAt(q, i) == [j \in 1..(Len(q) - 1) |-> IF j < i THEN q[j] ELSE q[j + 1]]

Terminal == {"returned", "failed"}

\* the requests read so far, over all connections
TotalReads == Len(reads[1]) + Len(reads[2])

\* an Err that takes every running connection down with it
FailAll(s, why) ==
    /\ pc' = [t \in Conns |-> IF pc[t] \in {"idle", "returned"} THEN pc[t] ELSE "failed"]
    /\ err' = [err EXCEPT ![s] = why]

\* return Err(..): the `?` operators of run
Fail(s, why) ==
    /\ pc' = [pc EXCEPT ![s] = "failed"]
    /\ err' = [err EXCEPT ![s] = why]

\* an end of stream that is accepted only once the queue has been emptied
StreamEndDrained(s) ==
    /\ pc[s] = "select"
    /\ responses[s] = << >>
    /\ pc' = [pc EXCEPT ![s] = "returned"]
    /\ UNCHANGED << builderVars, server, listenVars,
                    conn, cur, readyFut, responses, out, wire, reads, err >>

\* request_stream.next() yields None: return Ok(())
StreamEnd(s) ==
    /\ pc[s] = "select"
    /\ pc' = [pc EXCEPT ![s] = "returned"]
    /\ UNCHANGED << builderVars, server, listenVars,
                    conn, cur, readyFut, responses, out, wire, reads, err >>

\* a malformed item noted and skipped, the session carrying on
DecodeErrorSkipped(s) ==
    /\ pc[s] = "select"
    /\ err[s] = "none"
    /\ \E why \in {"decode", "convert"} : err' = [err EXCEPT ![s] = why]
    /\ UNCHANGED << builderVars, server, listenVars,
                    conn, pc, cur, readyFut, responses, out, wire, reads >>

\* request_stream.next() yields Some(Err(..)), or Request::try_from fails
DecodeError(s) ==
    /\ pc[s] = "select"
    /\ \E why \in {"decode", "convert"} : Fail(s, why)
    /\ UNCHANGED << builderVars, server, listenVars,
                    conn, cur, readyFut, responses, out, wire, reads >>

\* a request of one of the four categories is read: await the handler's readiness
ReadDispatch(s, limit) ==
    /\ pc[s] = "select"
    /\ TotalReads < limit
    /\ \E k \in Categories :
        /\ reads' = [reads EXCEPT ![s] = Append(@, k)]
        /\ cur' = [cur EXCEPT ![s] = Some([req |-> Len(reads[s]) + 1, kind |-> k,
                                            handler |-> Route(k)])]
    /\ pc' = [pc EXCEPT ![s] = "ready"]
    /\ readyFut' = [readyFut EXCEPT ![s] = "pending"]
    /\ UNCHANGED << builderVars, server, listenVars,
                    conn, responses, out, wire, err >>

\* a Flush request handed to a handler like the requests of a category
ReadFlushDispatched(s, limit) ==
    /\ pc[s] = "select"
    /\ TotalReads < limit
    /\ reads' = [reads EXCEPT ![s] = Append(@, "Flush")]
    /\ cur' = [cur EXCEPT ![s] = Some([req |-> Len(reads[s]) + 1, kind |-> "Flush",
                                        handler |-> "consensus"])]
    /\ pc' = [pc EXCEPT ![s] = "ready"]
    /\ readyFut' = [readyFut EXCEPT ![s] = "pending"]
    /\ UNCHANGED << builderVars, server, listenVars,
                    conn, responses, out, wire, err >>

\* a Flush request is read: enter the drain loop
ReadFlush(s, limit) ==
    /\ pc[s] = "select"
    /\ TotalReads < limit
    /\ reads' = [reads EXCEPT ![s] = Append(@, "Flush")]
    /\ pc' = [pc EXCEPT ![s] = "flush_next"]
    /\ UNCHANGED << builderVars, server, listenVars,
                    conn, cur, readyFut, responses, out, wire, err >>

\* the awaited handler's poll_ready returns Ready(Ok(()))
HandlerReady(s) ==
    /\ pc[s] = "ready"
    /\ readyFut[s] = "pending"
    /\ readyFut' = [readyFut EXCEPT ![s] = "ok"]
    /\ UNCHANGED << builderVars, server, listenVars,
                    conn, pc, cur, responses, out, wire, reads, err >>

\* a readiness error that is noted while the request goes on to its call
ReadyFailedIgnored(s) ==
    /\ pc[s] = "ready"
    /\ readyFut[s] = "pending"
    /\ err' = [err EXCEPT ![s] = "ready"]
    /\ readyFut' = [readyFut EXCEPT ![s] = "ok"]
    /\ UNCHANGED << builderVars, server, listenVars,
                    conn, pc, cur, responses, out, wire, reads >>

\* the awaited handler's poll_ready returns Ready(Err(..)): ready().await?
ReadyFailed(s) ==
    /\ pc[s] = "ready"
    /\ readyFut[s] = "pending"
    /\ Fail(s, "ready")
    /\ readyFut' = [readyFut EXCEPT ![s] = "err"]
    /\ UNCHANGED << builderVars, server, listenVars,
                    conn, cur, responses, out, wire, reads >>

\* a call issued without awaiting readiness
CallGuardNone(s) == TRUE

\* a call that also waits for the earlier calls to the same handler
CallGuardSerial(s) ==
    /\ readyFut[s] = "ok"
    /\ \A i \in 1..Len(responses[s]) :
        responses[s][i].handler = cur[s][1].handler => responses[s][i].st # "pending"

\* what .call(request) waits for: the ready() future, nothing else
CallGuard(s) == readyFut[s] = "ok"

\* .call(request) and responses.push_back(..)
Call(s) ==
    /\ pc[s] = "ready"
    /\ CallGuard(s)
    /\ responses' = [responses EXCEPT
                        ![s] = push_back(@, Pending(cur[s][1].req, cur[s][1].kind,
                                                    cur[s][1].handler))]
    /\ cur' = [cur EXCEPT ![s] = None]
    /\ readyFut' = [readyFut EXCEPT ![s] = "none"]
    /\ pc' = [pc EXCEPT ![s] = "select"]
    /\ UNCHANGED << builderVars, server, listenVars,
                    conn, out, wire, reads, err >>

\* a handler call's future resolves, with a response or with an error
Resolve(s) ==
    /\ pc[s] \notin Terminal
    /\ \E i \in 1..Len(responses[s]) : \E r \in {"ok", "err"} :
        /\ responses[s][i].st = "pending"
        /\ responses' = [responses EXCEPT ![s][i].st = r]
    /\ UNCHANGED << builderVars, server, listenVars,
                    conn, pc, cur, readyFut, out, wire, reads, err >>

\* a failed call dropped from the queue, the session carrying on
YieldSkipFailed(s, i, sendpc) ==
    /\ responses' = [responses EXCEPT ![s] = RemoveAt(@, i)]
    /\ IF responses[s][i].st = "ok"
       THEN /\ out' = [out EXCEPT ![s] = Some(RspMsg(responses[s][i]))]
            /\ pc' = [pc EXCEPT ![s] = sendpc]
            /\ UNCHANGED err
       ELSE UNCHANGED << out, pc, err >>

\* a poll that hands out the response of a call and leaves the call queued
YieldPeek(s, i, sendpc) ==
    /\ UNCHANGED responses
    /\ IF responses[s][i].st = "ok"
       THEN /\ out' = [out EXCEPT ![s] = Some(RspMsg(responses[s][i]))]
            /\ pc' = [pc EXCEPT ![s] = sendpc]
            /\ UNCHANGED err
       ELSE /\ Fail(s, "handler")
            /\ UNCHANGED out

\* a yielded item: response? either hands the message to the sink or returns Err
Yield(s, i, sendpc) ==
    /\ responses' = [responses EXCEPT ![s] = RemoveAt(@, i)]
    /\ IF responses[s][i].st = "ok"
       THEN /\ out' = [out EXCEPT ![s] = Some(RspMsg(responses[s][i]))]
            /\ pc' = [pc EXCEPT ![s] = sendpc]
            /\ UNCHANGED err
       ELSE /\ Fail(s, "handler")
            /\ UNCHANGED out

\* a second select! branch without its precondition
RspBranchAlways(s) == TRUE

\* the precondition of the second select! branch with its test inverted
RspBranchInverted(s) == responses[s] = << >>

\* the precondition of the second select! branch: !responses.is_empty()
RspBranchEnabled(s) == responses[s] # << >>

\* a response branch that is also polled while run awaits ready()
RspNextWhileReady(s) ==
    /\ pc[s] \in {"select", "ready"}
    /\ RspBranchEnabled(s)
    /\ IF responses[s] = << >>
       THEN /\ Fail(s, "expect")
            /\ UNCHANGED << responses, out >>
       ELSE \E i \in PollNext(responses[s]) : Yield(s, i, "rsp_send")
    /\ UNCHANGED << builderVars, server, listenVars,
                    conn, cur, readyFut, wire, reads >>

\* rsp = responses.next(), if !responses.is_empty()
\* next() of an empty FuturesOrdered yields None, on which
\* rsp.expect("didn't poll when responses was empty") panics
RspNext(s) ==
    /\ pc[s] = "select"
    /\ RspBranchEnabled(s)
    /\ IF responses[s] = << >>
       THEN /\ Fail(s, "expect")
            /\ UNCHANGED << responses, out >>
       ELSE \E i \in PollNext(responses[s]) : Yield(s, i, "rsp_send")
    /\ UNCHANGED << builderVars, server, listenVars,
                    conn, cur, readyFut, wire, reads >>

\* a drain that drops a failed call and goes on to the next one
FlushNextSomeLenient(s) ==
    /\ pc[s] = "flush_next"
    /\ \E i \in PollNext(responses[s]) : YieldSkipFailed(s, i, "flush_send")
    /\ UNCHANGED << builderVars, server, listenVars,
                    conn, cur, readyFut, wire, reads >>

\* while let Some(response) = responses.next().await
FlushNextSome(s) ==
    /\ pc[s] = "flush_next"
    /\ \E i \in PollNext(responses[s]) : Yield(s, i, "flush_send")
    /\ UNCHANGED << builderVars, server, listenVars,
                    conn, cur, readyFut, wire, reads >>

\* a drain loop that stops before the queue is empty
FlushNextNoneEarly(s) ==
    /\ pc[s] = "flush_next"
    /\ out' = [out EXCEPT ![s] = Some(FlushMsg)]
    /\ pc' = [pc EXCEPT ![s] = "flush_ack"]
    /\ UNCHANGED << builderVars, server, listenVars,
                    conn, cur, readyFut, responses, wire, reads, err >>

\* responses.next() yields None: the loop ends, the acknowledgement is sent
FlushNextNone(s) ==
    /\ pc[s] = "flush_next"
    /\ responses[s] = << >>
    /\ out' = [out EXCEPT ![s] = Some(FlushMsg)]
    /\ pc' = [pc EXCEPT ![s] = "flush_ack"]
    /\ UNCHANGED << builderVars, server, listenVars,
                    conn, cur, readyFut, responses, wire, reads, err >>

\* a drain that goes back to the select loop after each response
AfterSendToSelect(p) == "select"

\* where run continues after a send
AfterSend(p) == IF p = "flush_send" THEN "flush_next" ELSE "select"

\* response_sink.send(..).await?
Send(s) ==
    /\ pc[s] \in {"rsp_send", "flush_send", "flush_ack"}
    /\ out' = [out EXCEPT ![s] = None]
    /\ \E ok \in BOOLEAN :
        IF ok
        THEN /\ wire' = [wire EXCEPT ![s] = Append(@, out[s][1])]
             /\ pc' = [pc EXCEPT ![s] = AfterSend(pc[s])]
             /\ UNCHANGED err
        ELSE /\ Fail(s, "send")
             /\ UNCHANGED wire
    /\ UNCHANGED << builderVars, server, listenVars,
                    conn, cur, readyFut, responses, reads >>

SessionStep(s, limit) ==
    \/ StreamEnd(s)
    \/ DecodeError(s)
    \/ ReadDispatch(s, limit)
    \/ ReadFlush(s, limit)
    \/ HandlerReady(s)
    \/ ReadyFailed(s)
    \/ Call(s)
    \/ Resolve(s)
    \/ RspNext(s)
    \/ FlushNextSome(s)
    \/ FlushNextNone(s)
    \/ Send(s)

\* ------------------------------------------------------------ Server::listen
\* TcpListener::bind(addr).await? and listener.local_addr()?
Bind ==
    /\ listener = "unbound"
    /\ server # None
    /\ \E ok \in BOOLEAN :
        listener' = IF ok THEN "accepting" ELSE "bind_failed"
    /\ UNCHANGED << builderVars, server, acceptErrs, connVars >>

\* the connection the accept loop builds: a clone of each handler
Connection(srv) ==
    [consensus |-> srv.consensus, mempool |-> srv.mempool,
     info |-> srv.info, snapshot |-> srv.snapshot]

\* Ok((socket, _addr)): build the Connection and spawn its run
Accept ==
    /\ listener = "accepting"
    /\ \E s \in Conns :
        /\ pc[s] = "idle"
        /\ \A t \in Conns : t < s => pc[t] # "idle"
        /\ conn' = [conn EXCEPT ![s] = Some(Connection(server[1]))]
        /\ pc' = [pc EXCEPT ![s] = "select"]
    /\ UNCHANGED << builderVars, server, listenVars,
                    cur, readyFut, responses, out, wire, reads, err >>

\* Err(e): warn and loop
AcceptErr ==
    /\ listener = "accepting"
    /\ acceptErrs < MaxAcceptErrs
    /\ acceptErrs' = acceptErrs + 1
    /\ UNCHANGED << builderVars, server, listener, connVars >>

\* ------------------------------------------------------------ specifications
InitConns ==
    /\ conn = [s \in Conns |-> None]
    /\ pc = [s \in Conns |-> "idle"]
    /\ cur = [s \in Conns |-> None]
    /\ readyFut = [s \in Conns |-> "none"]
    /\ responses = [s \in Conns |-> << >>]
    /\ out = [s \in Conns |-> None]
    /\ wire = [s \in Conns |-> << >>]
    /\ reads = [s \in Conns |-> << >>]
    /\ err = [s \in Conns |-> "none"]

\* a default builder, nothing built, nothing listening
InitBuilder ==
    /\ builder = BuilderDefault
    /\ setLog = << >>
    /\ built = FALSE
    /\ server = None
    /\ listener = "unbound"
    /\ acceptErrs = 0
    /\ InitConns

NextBuilder ==
    \/ SetConsensus
    \/ SetMempool
    \/ SetInfo
    \/ SetSnapshot
    \/ Finish

SpecBuilder == InitBuilder /\ [][NextBuilder]_vars

\* a Server built from four handlers, about to listen
Init ==
    /\ builder = [consensus |-> Some("h1"), mempool |-> Some("h1"),
                  info |-> Some("h2"), snapshot |-> Some("h2")]
    /\ setLog = << <<"consensus", "h1">>, <<"mempool", "h1">>,
                   <<"info", "h2">>, <<"snapshot", "h2">> >>
    /\ built = TRUE
    /\ server = finish(builder)
    /\ listener = "unbound"
    /\ acceptErrs = 0
    /\ InitConns

Next ==
    \/ Bind
    \/ Accept
    \/ AcceptErr
    \/ \E s \in Conns : SessionStep(s, MaxTotalReads)

Spec == Init /\ [][Next]_vars

\* the listener has accepted connection 1 and spawned its run
InitSession ==
    /\ builder = [consensus |-> Some("h1"), mempool |-> Some("h1"),
                  info |-> Some("h2"), snapshot |-> Some("h2")]
    /\ setLog = << <<"consensus", "h1">>, <<"mempool", "h1">>,
                   <<"info", "h2">>, <<"snapshot", "h2">> >>
    /\ built = TRUE
    /\ server = finish(builder)
    /\ listener = "accepting"
    /\ acceptErrs = 0
    /\ conn = [s \in Conns |-> IF s = 1 THEN Some(Connection(server[1])) ELSE None]
    /\ pc = [s \in Conns |-> IF s = 1 THEN "select" ELSE "idle"]
    /\ cur = [s \in Conns |-> None]
    /\ readyFut = [s \in Conns |-> "none"]
    /\ responses = [s \in Conns |-> << >>]
    /\ out = [s \in Conns |-> None]
    /\ wire = [s \in Conns |-> << >>]
    /\ reads = [s \in Conns |-> << >>]
    /\ err = [s \in Conns |-> "none"]

NextSession == \E s \in Conns : SessionStep(s, MaxReads)

SpecSession == InitSession /\ [][NextSession]_vars

\* the scheduling of one session's task. run is polled whenever the future it
\* awaits is ready, so each of its own steps is taken once it stays enabled;
\* select! polls its branches in random order, so the response branch is taken
\* if it is enabled again and again, however often a request is read instead.
\* The futures run awaits (readiness, the queued calls, the send) do resolve,
\* one way or the other.
SessionFairness(s) ==
    /\ SF_vars(RspNext(s))
    /\ WF_vars(Call(s))
    /\ WF_vars(FlushNextSome(s))
    /\ WF_vars(FlushNextNone(s))
    /\ WF_vars(HandlerReady(s) \/ ReadyFailed(s))
    /\ WF_vars(Resolve(s))
    /\ WF_vars(Send(s))

\* the connection whose task InitSession has spawned
TheSession == 1

SpecSessionFair == SpecSession /\ SessionFairness(TheSession)

\* ------------------------------------------------------------------ claims
FlushPcs == {"flush_next", "flush_send", "flush_ack"}

IsRsp(m) == m.kind # "Flush"
IsAck(m) == m.kind = "Flush"
\* the category-specific responses on the wire of s, in wire order
WireRsps(s) == SelectSeq(wire[s], IsRsp)
\* the positions, in arrival order, of the non-Flush requests in r
RECURSIVE NonFlushPos(_, _)
NonFlushPos(r, n) ==
    IF n = 0 THEN << >>
    ELSE IF r[n] = "Flush" THEN NonFlushPos(r, n - 1)
    ELSE Append(NonFlushPos(r, n - 1), n)
\* the positions of the Flush requests in r
RECURSIVE FlushPos(_, _)
FlushPos(r, n) ==
    IF n = 0 THEN << >>
    ELSE IF r[n] = "Flush" THEN Append(FlushPos(r, n - 1), n)
    ELSE FlushPos(r, n - 1)
\* the Flush acknowledgements among the first j wire items of s
AcksUpTo(s, j) == Cardinality({i \in 1..j : IsAck(wire[s][i])})

\* C1: the n-th category-specific response on the wire is the response of the
\* n-th non-Flush request read, whatever the order the calls resolve in and
\* whatever the categories.
C1_OrderPreserved ==
    \A s \in Conns :
        LET w == WireRsps(s)
            p == NonFlushPos(reads[s], Len(reads[s]))
        IN  /\ Len(w) <= Len(p)
            /\ \A n \in 1..Len(w) :
                /\ w[n].req = p[n]
                /\ w[n].kind = reads[s][p[n]]

\* three requests of three categories: the first is answered; the third has
\* resolved before the second and waits behind it
C1_Witness ==
    \E s \in Conns :
        /\ Len(reads[s]) = 3
        /\ Cardinality({reads[s][i] : i \in 1..3} \ {"Flush"}) = 3
        /\ Len(WireRsps(s)) = 1
        /\ Len(responses[s]) = 2
        /\ responses[s][1].st = "pending"
        /\ responses[s][2].st = "ok"

\* the responses that precede each acknowledgement on the wire
C2_AckBarrier(s) ==
    \A j \in 1..Len(wire[s]) :
        IsAck(wire[s][j]) =>
            LET f == FlushPos(reads[s], Len(reads[s]))[AcksUpTo(s, j)]
            IN  \A q \in 1..f :
                    reads[s][q] # "Flush" =>
                        \E i \in 1..(j - 1) :
                            IsRsp(wire[s][i]) /\ wire[s][i].req = q

C2_AckSend(s) ==
    pc[s] = "flush_ack" =>
        /\ responses[s] = << >>
        /\ out[s] = Some(FlushMsg)
        /\ Len(WireRsps(s)) = Len(NonFlushPos(reads[s], Len(reads[s])))

C2_EmptyQueueStep(s) ==
    (pc[s] \in {"flush_next", "flush_ack"} /\ responses[s] = << >>
        /\ wire'[s] # wire[s])
    => (pc[s] = "flush_ack" /\ wire'[s] = Append(wire[s], FlushMsg))

\* C2: when a Flush acknowledgement is sent the queue is empty and every
\* non-Flush request read before that Flush has its response on the wire
\* already; with an empty queue the acknowledgement is the very next wire item.
C2_FlushBarrier ==
    /\ [](\A s \in Conns : C2_AckBarrier(s) /\ C2_AckSend(s))
    /\ [][\A s \in Conns : C2_EmptyQueueStep(s)]_vars

\* a Flush read with an empty queue is acknowledged with nothing before it,
\* and a later Flush is acknowledged behind the response read before it
C2_Witness ==
    \E s \in Conns :
        /\ Len(reads[s]) = 3
        /\ reads[s][1] = "Flush" /\ reads[s][2] # "Flush" /\ reads[s][3] = "Flush"
        /\ Len(wire[s]) = 3
        /\ IsAck(wire[s][1]) /\ IsRsp(wire[s][2]) /\ IsAck(wire[s][3])

\* the Flush requests read by s, and the acknowledgements on its wire
FlushesRead(s) == Len(FlushPos(reads[s], Len(reads[s])))
AcksOnWire(s) == AcksUpTo(s, Len(wire[s]))
\* s read a Flush whose drain or acknowledgement has not completed: it is at
\* work on it, or it returned Err from it
FlushCutShort(s) ==
    /\ reads[s] # << >>
    /\ reads[s][Len(reads[s])] = "Flush"
    /\ \/ pc[s] \in FlushPcs
       \/ pc[s] = "failed" /\ err[s] \in {"handler", "send"}
\* no Flush is handed to a handler or queued, and no response answers a Flush
FlushNeverDispatched(s) ==
    /\ cur[s] # None => cur[s][1].kind \in Categories
    /\ \A i \in 1..Len(responses[s]) :
        /\ responses[s][i].kind \in Categories
        /\ reads[s][responses[s][i].req] = responses[s][i].kind
    /\ \A j \in 1..Len(wire[s]) :
        IsRsp(wire[s][j]) => reads[s][wire[s][j].req] # "Flush"

\* C3 (as stated): a Flush is never dispatched or queued, gets no
\* category-specific response, and exactly one acknowledgement is on the wire
\* per Flush request read, once the session is no longer at work on a Flush.
C3_ExactlyOneAckPerFlush ==
    \A s \in Conns :
        /\ FlushNeverDispatched(s)
        /\ pc[s] \notin FlushPcs => AcksOnWire(s) = FlushesRead(s)

\* C3 (amended): a Flush is never dispatched or queued and gets no
\* category-specific response; each Flush read gets at most one acknowledgement,
\* exactly one once its drain and the send of the acknowledgement have completed,
\* and none when the session returns Err during them.
C3_FlushTransparent ==
    \A s \in Conns :
        /\ FlushNeverDispatched(s)
        /\ AcksOnWire(s) = FlushesRead(s) - (IF FlushCutShort(s) THEN 1 ELSE 0)

\* two Flush requests read and handled, two acknowledgements, one response
C3_Witness ==
    \E s \in Conns :
        /\ FlushesRead(s) = 2
        /\ AcksOnWire(s) = 2
        /\ Len(WireRsps(s)) = 1
        /\ pc[s] = "select"

\* C4 (as stated): responses of different categories interleave freely: a
\* resolved call with no earlier call of its own category in the queue can be
\* sent now, whatever calls of other categories are queued ahead of it.
C4_InterleaveFreely ==
    \A s \in Conns :
        (/\ pc[s] = "select"
         /\ \E i \in 1..Len(responses[s]) :
              /\ responses[s][i].st = "ok"
              /\ \A j \in 1..(i - 1) : responses[s][j].kind # responses[s][i].kind)
        => ENABLED RspNext(s)

\* C4 (amended): responses are sent in arrival order across all categories:
\* no response is on the wire ahead of the response of an earlier request, of
\* the same or of another category.
C4_ArrivalOrderAcrossCategories ==
    \A s \in Conns :
        /\ \A i, j \in 1..Len(wire[s]) :
            (i < j /\ IsRsp(wire[s][i]) /\ IsRsp(wire[s][j]))
                => wire[s][i].req < wire[s][j].req
        /\ \A i \in 1..Len(responses[s]) : \A j \in 1..Len(wire[s]) :
            IsRsp(wire[s][j]) => wire[s][j].req < responses[s][i].req

\* a response is on the wire; a later call has resolved and is held in the
\* queue behind an unresolved earlier call of another category
C4_Witness ==
    \E s \in Conns :
        /\ pc[s] = "select"
        /\ Len(WireRsps(s)) = 1
        /\ Len(responses[s]) = 2
        /\ responses[s][1].st = "pending"
        /\ responses[s][2].st = "ok"
        /\ responses[s][1].kind # responses[s][2].kind
        /\ responses[s][2].kind = WireRsps(s)[1].kind

\* the non-Flush requests read by s
CallsRead(s) == Len(NonFlushPos(reads[s], Len(reads[s])))

\* once ready() has resolved, the call is enabled whatever the queue holds
C5_CallWhenReady(s) ==
    (pc[s] = "ready" /\ readyFut[s] = "ok") => ENABLED Call(s)

C5_CallStep(s) ==
    (pc[s] = "ready" /\ pc'[s] = "select") =>
        /\ Len(responses'[s]) = Len(responses[s]) + 1
        /\ \A i \in 1..Len(responses[s]) : responses'[s][i] = responses[s][i]
        /\ responses'[s][Len(responses'[s])].st = "pending"

\* C5: a dispatch awaits the handler's readiness only: once the handler has
\* signalled ready the call can be issued, whatever earlier calls to the same
\* handler are still unresolved, and the call appends one pending operation.
C5_Pipelining ==
    /\ [](\A s \in Conns : C5_CallWhenReady(s))
    /\ [][\A s \in Conns : C5_CallStep(s)]_vars

\* two unresolved calls to the same handler in the queue
C5_Witness ==
    \E s \in Conns : \E i, j \in 1..Len(responses[s]) :
        /\ i < j
        /\ responses[s][i].handler = responses[s][j].handler
        /\ responses[s][i].st = "pending"
        /\ responses[s][j].st = "pending"

\* taking a failed head from the queue
C6_TakeFailed(s) ==
    (/\ Len(responses'[s]) < Len(responses[s])
     /\ responses[s][1].st = "err")
    => /\ pc'[s] = "failed" /\ err'[s] = "handler"
       /\ wire'[s] = wire[s] /\ out'[s] = None
       /\ responses'[s] = Tail(responses[s])

C6_ClosedStays(s) ==
    pc[s] = "failed" =>
        /\ pc'[s] = "failed" /\ err'[s] = err[s]
        /\ wire'[s] = wire[s] /\ out'[s] = out[s]
        /\ responses'[s] = responses[s] /\ reads'[s] = reads[s]

C6_Unanswered(s) ==
    (pc[s] = "failed" /\ err[s] = "handler") =>
        /\ out[s] = None
        /\ Len(WireRsps(s)) + 1 + Len(responses[s]) = CallsRead(s)
        /\ \A j \in 1..Len(wire[s]) : \A i \in 1..Len(responses[s]) :
            IsRsp(wire[s][j]) => wire[s][j].req < responses[s][i].req - 1

\* C6: when an operation that resolved with a failure is taken from the head
\* of the queue the session returns Err; the failed operation gets no response
\* and nothing is sent afterwards, the operations queued behind it included.
C6_HandlerFailureFatal ==
    /\ [](\A s \in Conns : C6_Unanswered(s))
    /\ [][\A s \in Conns : C6_TakeFailed(s) /\ C6_ClosedStays(s)]_vars

\* the second of three calls failed: the first was answered, the third, resolved
\* with a response, stays in the queue unsent
C6_Witness ==
    \E s \in Conns :
        /\ pc[s] = "failed" /\ err[s] = "handler"
        /\ Len(WireRsps(s)) = 1
        /\ Len(responses[s]) = 1 /\ responses[s][1].st = "ok"
        /\ responses[s][1].req = 3

\* the step on which a malformed item is read
C7_DecodeStep(s) ==
    (err[s] = "none" /\ err'[s] \in {"decode", "convert"}) =>
        /\ pc[s] = "select" /\ pc'[s] = "failed"
        /\ cur'[s] = None /\ readyFut'[s] = readyFut[s]
        /\ responses'[s] = responses[s] /\ reads'[s] = reads[s]
        /\ wire'[s] = wire[s] /\ out'[s] = None

C7_DecodeClosed(s) ==
    err[s] \in {"decode", "convert"} =>
        /\ pc[s] = "failed" /\ out[s] = None /\ cur[s] = None
        /\ Len(WireRsps(s)) + Len(responses[s]) = CallsRead(s)

C7_AfterDecode(s) ==
    err[s] \in {"decode", "convert"} =>
        /\ pc'[s] = pc[s] /\ err'[s] = err[s]
        /\ wire'[s] = wire[s] /\ out'[s] = out[s]
        /\ responses'[s] = responses[s] /\ reads'[s] = reads[s]

\* C7: when the next inbound item is a decode error the session returns Err
\* at once: no handler is called for it, no response is emitted for it and
\* nothing is sent afterwards, whatever the queue holds.
C7_DecodeFailureFatal ==
    /\ [](\A s \in Conns : C7_DecodeClosed(s))
    /\ [][\A s \in Conns : C7_DecodeStep(s) /\ C7_AfterDecode(s)]_vars

\* a malformed item arrives while a resolved call waits in the queue, after one
\* response was sent
C7_Witness ==
    \E s \in Conns :
        /\ pc[s] = "failed" /\ err[s] = "decode"
        /\ Len(WireRsps(s)) = 1
        /\ Len(responses[s]) = 2 /\ responses[s][1].st = "ok"

\* the step that appends a call to the queue
C8_CallAfterReady(s) ==
    Len(responses'[s]) > Len(responses[s]) =>
        /\ pc[s] = "ready" /\ readyFut[s] = "ok"
        /\ cur[s] # None
        /\ cur[s][1].handler = Route(cur[s][1].kind)
        /\ responses'[s] =
             Append(responses[s],
                    Pending(cur[s][1].req, cur[s][1].kind, Route(cur[s][1].kind)))

C8_NothingBetween(s) ==
    (/\ readyFut[s] = "ok"
     /\ << pc[s], cur[s], readyFut[s], out[s], wire[s], reads[s], err[s],
           Len(responses[s]) >>
        # << pc'[s], cur'[s], readyFut'[s], out'[s], wire'[s], reads'[s], err'[s],
             Len(responses'[s]) >>)
    => /\ pc[s] = "ready"
       /\ Len(responses'[s]) = Len(responses[s]) + 1
       /\ readyFut'[s] = "none"

\* C8: every handler call is issued right after the readiness await on that
\* same handler succeeded, with no other step of the session in between; no
\* call is issued to a handler that has not signalled ready.
C8_ReadinessBeforeCall ==
    [][\A s \in Conns : C8_CallAfterReady(s) /\ C8_NothingBetween(s)]_vars

\* three calls issued, to three handlers
C8_Witness ==
    \E s \in Conns :
        /\ Len(responses[s]) = 3
        /\ Cardinality({responses[s][i].handler : i \in 1..3}) = 3

\* everything connection s owns
ConnState(s) ==
    << conn[s], pc[s], cur[s], readyFut[s], responses[s], out[s], wire[s],
       reads[s], err[s] >>
Closed(s) == pc[s] \in Terminal

\* a step of connection a leaves connection b and the listener as they were
C9_Frame(a, b) ==
    (a # b /\ ConnState(a)' # ConnState(a)) =>
        /\ ConnState(b)' = ConnState(b)
        /\ listener' = listener

\* what connection b can do next does not depend on connection a having closed
C9_NotPaused(a, b) ==
    (a # b /\ Closed(a)) =>
        /\ pc[b] = "select" => ENABLED StreamEnd(b)
        /\ (pc[b] = "select" /\ TotalReads < MaxTotalReads) =>
            (ENABLED ReadDispatch(b, MaxTotalReads)
             /\ ENABLED ReadFlush(b, MaxTotalReads))
        /\ (pc[b] = "ready" /\ readyFut[b] = "ok") => ENABLED Call(b)
        /\ (pc[b] = "select" /\ PollNext(responses[b]) # {}) => ENABLED RspNext(b)
        /\ (pc[b] = "flush_next" /\ PollNext(responses[b]) # {})
            => ENABLED FlushNextSome(b)
        /\ (pc[b] = "flush_next" /\ responses[b] = << >>) => ENABLED FlushNextNone(b)
        /\ pc[b] \in {"rsp_send", "flush_send", "flush_ack"} => ENABLED Send(b)
        /\ (\E i \in 1..Len(responses[b]) : responses[b][i].st = "pending")
            => (pc[b] \in Terminal \/ ENABLED Resolve(b))

C9_ListenerAccepts ==
    /\ (\E s \in Conns : pc[s] # "idle") => listener = "accepting"
    /\ (listener = "accepting" /\ \E s \in Conns : pc[s] = "idle") => ENABLED Accept

\* C9: a step of one connection, its failure or close included, changes
\* nothing of another connection: the other's queue, wire and position stay as
\* they were and its own steps stay enabled; each connection's wire output
\* obeys the single-connection guarantees; the listener keeps accepting.
C9_Isolation ==
    /\ [](C9_ListenerAccepts /\ \A a, b \in Conns : C9_NotPaused(a, b))
    /\ [](C1_OrderPreserved /\ C3_FlushTransparent)
    /\ [][/\ \A a, b \in Conns : C9_Frame(a, b)
          /\ listener = "accepting" => listener' = "accepting"]_vars

\* connection 1 returned Err on a failed call while connection 2 holds a
\* resolved call in its queue and is still running
C9_Witness ==
    /\ pc[1] = "failed" /\ err[1] = "handler"
    /\ pc[2] = "select"
    /\ Len(responses[2]) = 1 /\ responses[2][1].st = "ok"
    /\ listener = "accepting"

\* the setter calls made for a slot, in call order
SetCalls(slot) == SelectSeq(setLog, LAMBDA c : c[1] = slot)
LastSet(slot) == SetCalls(slot)[Len(SetCalls(slot))][2]

\* C10: finish returns a Server exactly when each of the four slots was set at
\* least once, and the Server holds for each slot the value of its last setter
\* call; otherwise finish returns nothing.
C10_BuilderComplete ==
    /\ ~built => server = None
    /\ built =>
        /\ server # None <=> \A slot \in Slots : SetCalls(slot) # << >>
        /\ server # None => \A slot \in Slots : server[1][slot] = LastSet(slot)

\* five setter calls, one slot set twice with two values, then finish
C10_Witness ==
    /\ built /\ server # None
    /\ Len(setLog) = 5
    /\ \E slot \in Slots :
        /\ Len(SetCalls(slot)) = 2
        /\ SetCalls(slot)[1][2] # SetCalls(slot)[2][2]

\* what a step taken inside the Flush arm may do
C11_DrainStep(s) ==
    pc[s] \in FlushPcs =>
        /\ reads'[s] = reads[s]
        /\ cur'[s] = None /\ readyFut'[s] = "none"
        /\ Len(responses'[s]) <= Len(responses[s])
        /\ pc'[s] \in FlushPcs \cup {"select", "failed"}
        /\ pc'[s] = "select" =>
            (pc[s] = "flush_ack" /\ wire'[s] = Append(wire[s], FlushMsg))
        /\ wire'[s] # wire[s] => wire'[s] = Append(wire[s], out[s][1])

\* inside the Flush arm no read and no dispatch is enabled
C11_NoIngress(s) ==
    pc[s] \in FlushPcs =>
        /\ reads[s][Len(reads[s])] = "Flush"
        /\ cur[s] = None /\ readyFut[s] = "none"
        /\ ~ ENABLED ReadDispatch(s, MaxReads)
        /\ ~ ENABLED ReadFlush(s, MaxReads)
        /\ ~ ENABLED StreamEnd(s)
        /\ ~ ENABLED DecodeError(s)
        /\ ~ ENABLED Call(s)

\* C11: from the read of a Flush request until its acknowledgement is sent or
\* the session closes, the session reads no inbound message and issues no
\* handler call: it only awaits the head of the queue and sends.
C11_DrainBlocksIngress ==
    /\ [](\A s \in Conns : C11_NoIngress(s))
    /\ [][\A s \in Conns : C11_DrainStep(s)]_vars

\* a drain at work on the one queued response while a further request could
\* still be read
C11_Witness ==
    \E s \in Conns :
        /\ pc[s] = "flush_send"
        /\ Len(reads[s]) = 2
        /\ TotalReads < MaxReads

\* while run awaits ready() nothing is taken from the queue or written
C12_ReadyStep(s) ==
    pc[s] = "ready" =>
        /\ wire'[s] = wire[s]
        /\ out'[s] = None
        /\ Len(responses'[s]) >= Len(responses[s])
        /\ (readyFut[s] = "pending" /\ pc'[s] = "ready")
               => \A i \in 1..Len(responses[s]) :
                      responses'[s][i].req = responses[s][i].req

\* while run awaits ready() neither the response branch nor a send can run
C12_ReadyBlocks(s) ==
    pc[s] = "ready" =>
        /\ out[s] = None
        /\ ~ ENABLED RspNext(s)
        /\ ~ ENABLED FlushNextSome(s)
        /\ ~ ENABLED Send(s)

\* C12: while the session awaits the readiness of the handler for a request
\* it has just read, nothing is sent on the wire, even when the head of the
\* queue has already resolved.
C12_HeadOfLineBlocking ==
    /\ [](\A s \in Conns : C12_ReadyBlocks(s))
    /\ [][\A s \in Conns : C12_ReadyStep(s)]_vars

\* the head has resolved, its response is unsent, and run is blocked on ready()
C12_Witness ==
    \E s \in Conns :
        /\ pc[s] = "ready" /\ readyFut[s] = "pending"
        /\ responses[s] # << >>
        /\ responses[s][1].st = "ok"
        /\ \A j \in 1..Len(wire[s]) : wire[s][j].req # responses[s][1].req

\* the end of the inbound stream can be taken at select! whatever is queued
C13_EndAnyQueue(s) == pc[s] = "select" => ENABLED StreamEnd(s)

\* the step that returns Ok(()) awaits and sends nothing, and nothing follows
C13_EndStep(s) ==
    /\ (pc[s] # "returned" /\ pc'[s] = "returned") =>
           /\ pc[s] = "select"
           /\ responses'[s] = responses[s]
           /\ wire'[s] = wire[s]
           /\ out'[s] = None /\ err'[s] = "none"
    /\ pc[s] = "returned" => ConnState(s)' = ConnState(s)

\* after Ok(()) the wire holds the responses of a prefix of the calls and the
\* queue still holds the others, unanswered
C13_Prefix(s) ==
    pc[s] = "returned" =>
        LET w == WireRsps(s)
            p == NonFlushPos(reads[s], Len(reads[s]))
        IN  /\ err[s] = "none" /\ out[s] = None /\ cur[s] = None
            /\ Len(w) + Len(responses[s]) = Len(p)
            /\ \A n \in 1..Len(w) : w[n].req = p[n]
            /\ \A i \in 1..Len(responses[s]) :
                   responses[s][i].req = p[Len(w) + i]
            /\ AcksOnWire(s) = FlushesRead(s)

\* C13: when the inbound stream ends the session returns Ok(()) at once,
\* whatever the queue holds: queued operations are neither awaited nor sent,
\* so the wire holds the responses of a prefix of the requests read and the
\* other requests are never answered.
C13_CleanIngressEnd ==
    /\ [](\A s \in Conns : C13_EndAnyQueue(s) /\ C13_Prefix(s))
    /\ [][\A s \in Conns : C13_EndStep(s)]_vars

\* returned Ok(()) with one response sent, one resolved but unsent and one
\* still pending
C13_Witness ==
    \E s \in Conns :
        /\ pc[s] = "returned"
        /\ Len(WireRsps(s)) = 1
        /\ Len(responses[s]) = 2
        /\ responses[s][1].st = "ok"
        /\ responses[s][2].st = "pending"

\* the Flush requests read before position n
FlushesBefore(s, n) ==
    Cardinality({m \in 1..(n - 1) : m <= Len(reads[s]) /\ reads[s][m] = "Flush"})

\* while a queued call is unresolved, no request read after it is answered
\* and no Flush read after it is acknowledged
C14_BehindPending(s) ==
    \A i \in 1..Len(responses[s]) :
        responses[s][i].st = "pending" =>
            /\ \A j \in 1..Len(wire[s]) :
                   IsRsp(wire[s][j]) => wire[s][j].req < responses[s][i].req
            /\ out[s] # None =>
                   (IsRsp(out[s][1]) /\ out[s][1].req < responses[s][i].req)
            /\ AcksOnWire(s) <= FlushesBefore(s, responses[s][i].req)

\* an unresolved head stops both the response branch and the drain
C14_HeadPendingBlocks(s) ==
    (responses[s] # << >> /\ responses[s][1].st = "pending") =>
        /\ ~ ENABLED RspNext(s)
        /\ ~ ENABLED FlushNextSome(s)
        /\ ~ ENABLED FlushNextNone(s)

\* only a resolved head is ever taken from the queue
C14_OnlyHead(s) ==
    Len(responses'[s]) < Len(responses[s]) =>
        /\ responses[s][1].st # "pending"
        /\ Len(responses'[s]) = Len(responses[s]) - 1
        /\ \A i \in 1..Len(responses'[s]) :
               responses'[s][i].req = responses[s][i + 1].req

\* C14: only the head of the queue is ever taken and sent, so for as long as a
\* dispatched call stays unresolved no response to a request read after it is
\* sent, even if those calls have resolved, and no Flush read after it is
\* acknowledged.
C14_HungCallStalls ==
    /\ [](\A s \in Conns : C14_BehindPending(s) /\ C14_HeadPendingBlocks(s))
    /\ [][\A s \in Conns : C14_OnlyHead(s)]_vars

\* a drain stuck behind an unresolved head: the call behind it has resolved,
\* nothing is on the wire and the Flush is not acknowledged
C14_Witness ==
    \E s \in Conns :
        /\ pc[s] = "flush_next"
        /\ Len(responses[s]) = 2
        /\ responses[s][1].st = "pending"
        /\ responses[s][2].st = "ok"
        /\ wire[s] = << >>

\* the response branch can run only on a queue that has a head to yield
C15_BranchGuarded(s) ==
    /\ ENABLED RspNext(s) =>
           (responses[s] # << >> /\ responses[s][1].st # "pending")
    /\ (pc[s] = "select" /\ responses[s] = << >>) => ~ ENABLED RspNext(s)
    /\ err[s] # "expect"

\* wherever the response branch fires it takes the head of a non-empty queue
C15_BranchStep(s) ==
    (pc[s] = "select" /\ responses'[s] # responses[s] /\ pc'[s] # "select") =>
        /\ responses[s] # << >>
        /\ responses'[s] = Tail(responses[s])
        /\ pc'[s] = "rsp_send" => out'[s] = Some(RspMsg(responses[s][1]))
        /\ pc'[s] = "failed" => err'[s] = "handler"

\* C15: the response branch of select! is enabled only while the queue is not
\* empty, so wherever it fires responses.next() yields the head and
\* expect("didn't poll when responses was empty") never panics.
C15_ExpectNeverFails ==
    /\ [](\A s \in Conns : C15_BranchGuarded(s))
    /\ [][\A s \in Conns : C15_BranchStep(s)]_vars

\* the response branch has just taken the only queued response: the queue is
\* empty again and the branch is disabled
C15_Witness ==
    \E s \in Conns :
        /\ pc[s] = "rsp_send"
        /\ out[s] # None
        /\ responses[s] = << >>

\* a failed readiness check closes the session: no call, nothing appended
C16_ReadyFailStep(s) ==
    (err[s] = "none" /\ err'[s] = "ready") =>
        /\ pc[s] = "ready" /\ pc'[s] = "failed"
        /\ responses'[s] = responses[s]
        /\ wire'[s] = wire[s]
        /\ out'[s] = None

\* a failed send closes the session and writes nothing
C16_SendFailStep(s) ==
    (err[s] = "none" /\ err'[s] = "send") =>
        /\ pc[s] \in {"rsp_send", "flush_send", "flush_ack"}
        /\ pc'[s] = "failed"
        /\ wire'[s] = wire[s]
        /\ responses'[s] = responses[s]

\* a closed session reads, dispatches and sends nothing more
C16_ClosedStep(s) == Closed(s) => ConnState(s)' = ConnState(s)

\* after a readiness failure the request that was read has no call: it is
\* neither queued nor answered
C16_AfterFailure(s) ==
    /\ err[s] = "ready" =>
           /\ pc[s] = "failed" /\ readyFut[s] = "err"
           /\ cur[s] # None
           /\ \A i \in 1..Len(responses[s]) :
                  responses[s][i].req # cur[s][1].req
           /\ \A j \in 1..Len(wire[s]) : wire[s][j].req # cur[s][1].req
           /\ Len(WireRsps(s)) + Len(responses[s]) = CallsRead(s) - 1
    /\ err[s] = "send" => (pc[s] = "failed" /\ out[s] = None)
    /\ Closed(s) => ~ ENABLED SessionStep(s, MaxTotalReads)

\* C16: an error from a handler's readiness check closes the session without
\* the call being made or anything being appended to the queue, a failed send
\* on the outbound side closes the session, and a closed session takes no
\* further step.
C16_ReadyAndSendFailuresFatal ==
    /\ [](\A s \in Conns : C16_AfterFailure(s))
    /\ [][\A s \in Conns : C16_ReadyFailStep(s) /\ C16_SendFailStep(s)
                           /\ C16_ClosedStep(s)]_vars

\* one session closed by a readiness failure, the other by a failed send
C16_Witness ==
    \E a, b \in Conns :
        /\ pc[a] = "failed" /\ err[a] = "ready"
        /\ pc[b] = "failed" /\ err[b] = "send"

\* the calls issued so far: every non-Flush request read, except the one
\* whose handler's readiness is still awaited
CallsIssued(s) == CallsRead(s) - (IF cur[s] # None THEN 1 ELSE 0)

\* the response taken from the queue whose send is still awaited, if any
InFlight(s) == IF out[s] # None /\ IsRsp(out[s][1]) THEN 1 ELSE 0

\* the calls issued are the responses on the wire plus the queued calls
C17_ConservationOnWire ==
    \A s \in Conns :
        ~ Closed(s) =>
            CallsIssued(s) = Len(WireRsps(s)) + Len(responses[s])

\* no request is answered twice
C17_AtMostOnce(s) ==
    \A i, j \in 1..Len(wire[s]) :
        (i # j /\ IsRsp(wire[s][i])) => wire[s][i].req # wire[s][j].req

\* C17: in every state of a session that has not closed, the calls issued for
\* non-Flush requests are the responses on the wire, plus the response taken
\* from the queue whose send is still awaited, plus the queued calls; no
\* request is answered twice, and no more responses are sent than requests
\* were read.
C17_Conservation ==
    \A s \in Conns :
        /\ ~ Closed(s) =>
               CallsIssued(s) =
                   Len(WireRsps(s)) + InFlight(s) + Len(responses[s])
        /\ C17_AtMostOnce(s)
        /\ Len(WireRsps(s)) <= CallsRead(s)

\* all three terms at once: one response on the wire, one handed to the sink,
\* one call still queued
C17_Witness ==
    \E s \in Conns :
        /\ pc[s] = "rsp_send"
        /\ Len(WireRsps(s)) = 1
        /\ InFlight(s) = 1
        /\ Len(responses[s]) = 1

\* what the drain does with the head it takes: a response goes to the sink,
\* a failure closes the session on the spot
C18_DrainTake(s) ==
    (pc[s] = "flush_next" /\ Len(responses'[s]) < Len(responses[s])) =>
        /\ responses'[s] = Tail(responses[s])
        /\ wire'[s] = wire[s]
        /\ responses[s][1].st = "ok" =>
               /\ pc'[s] = "flush_send"
               /\ out'[s] = Some(RspMsg(responses[s][1]))
        /\ responses[s][1].st = "err" =>
               /\ pc'[s] = "failed" /\ err'[s] = "handler"
               /\ out'[s] = None

\* the session returned Err from a drain because a drained call had failed
DrainFailed(s) ==
    /\ pc[s] = "failed" /\ err[s] = "handler"
    /\ reads[s] # << >>
    /\ reads[s][Len(reads[s])] = "Flush"

\* after a failure in a drain: the calls ahead of the failed one are answered,
\* the failed one and those behind it are not, and the Flush has no
\* acknowledgement
C18_AfterDrainFailure(s) ==
    DrainFailed(s) =>
        LET w == WireRsps(s)
            p == NonFlushPos(reads[s], Len(reads[s]))
        IN  /\ out[s] = None
            /\ Len(w) + 1 + Len(responses[s]) = Len(p)
            /\ \A n \in 1..Len(w) : w[n].req = p[n]
            /\ \A i \in 1..Len(responses[s]) :
                   responses[s][i].req = p[Len(w) + 1 + i]
            /\ AcksOnWire(s) = FlushesRead(s) - 1

\* C18: when an operation taken during a Flush drain has failed, the responses
\* of the operations ahead of it have been sent and the session closes without
\* the Flush acknowledgement and without sending anything queued behind it.
C18_FailureDuringDrain ==
    /\ [](\A s \in Conns : C18_AfterDrainFailure(s))
    /\ [][\A s \in Conns : C18_DrainTake(s) /\ C16_ClosedStep(s)]_vars

\* two calls and a Flush: the first call is answered, the second failed in the
\* drain, and the wire holds no acknowledgement
C18_Witness ==
    \E s \in Conns :
        /\ DrainFailed(s)
        /\ Len(reads[s]) = 3
        /\ Len(wire[s]) = 1 /\ IsRsp(wire[s][1]) /\ wire[s][1].req = 1
        /\ responses[s] = << >>

\* the n-th message read by s has its answer on the wire: its response, or for
\* a Flush its acknowledgement
Answered(s, n) ==
    /\ Len(reads[s]) >= n
    /\ IF reads[s][n] = "Flush"
       THEN AcksOnWire(s) > FlushesBefore(s, n)
       ELSE \E j \in 1..Len(wire[s]) :
                IsRsp(wire[s][j]) /\ wire[s][j].req = n

\* the inbound stream neither ends nor fails, no readiness check, call or send
\* fails
C19_NoFailure ==
    \A s \in Conns :
        /\ ~ Closed(s)
        /\ readyFut[s] # "err"
        /\ \A i \in 1..Len(responses[s]) : responses[s][i].st # "err"

====
